---------------------------- MODULE Spec2Model ----------------------------
(***************************************************************************)
(* Model of xrmocap's CameraErrorSelector (camera_error_selector.py) and   *)
(* of the construction of MMposeTopDownEstimator                           *)
(* (mmpose_top_down_estimator.py).                                         *)
(*                                                                         *)
(* Tensors are sequences: a mask is a sequence over views of rows, a row a *)
(* sequence over the flattened points of that view.  Views are numbered    *)
(* 0..n_view-1 by the code and sit at positions 1..n_view here.            *)
(***************************************************************************)
EXTENDS Integers, Sequences, FiniteSets, TLC

\* ------------------------------------------------------------------ bounds
MaxView == 3
MaxTarget == 3
MaxFrame == 3

\* ---------------------------------------------------------- float values
\* np.nan.  Every arithmetic operator below tests for it before computing.
NaN == 999

IsNaN(x) == x = NaN

\* The signed error, np.abs forgotten.
Abs_Signed(x) == x

\* np.abs on one entry: NaN stays NaN.
Abs(x) == IF IsNaN(x) THEN NaN ELSE IF x < 0 THEN 0 - x ELSE x

Range(s) == {s[i] : i \in 1..Len(s)}

\* ------------------------------------------------------------ the inputs
\* init_points_mask=None
NoMask == << >>

\* One view of an input: its mask row and, for each point, the signed
\* reprojection error the triangulator reports for that observation when the
\* observation is valid.  The points tensor is represented by these
\* residuals.
ViewRows ==
    { [mask |-> <<1, 1>>,   res |-> <<2, 2>>],
      [mask |-> <<1, NaN>>, res |-> <<0 - 3, 9>>],
      [mask |-> <<0, 0>>,   res |-> <<9, 9>>],
      [mask |-> <<1, 1>>,   res |-> <<0 - 1, 1>>] }

AllOnes(row) == \A p \in 1..Len(row) : row[p] = 1

\* The (points, init_points_mask) pairs a caller passes, for n views.
Inputs(n) ==
    { [points |-> [v \in 1..n |-> rows[v].res],
       mask   |-> [v \in 1..n |-> rows[v].mask]] :
          rows \in [1..n -> ViewRows] }
    \cup
    { [points |-> [v \in 1..n |-> rows[v].res], mask |-> NoMask] :
          rows \in [1..n -> {r \in ViewRows : AllOnes(r.mask)}] }

AllInputs == UNION {Inputs(n) : n \in 2..MaxView}

\* --------------------------------------------------------- collaborators
\* prepare_triangulate_input: a missing mask becomes all ones.
PrepareTriangulateInput(points, points_mask) ==
    [points |-> points,
     mask   |-> IF points_mask = NoMask
                THEN [v \in 1..Len(points) |->
                        [p \in 1..Len(points[v]) |-> 1]]
                ELSE points_mask]

\* triangulator.triangulate: the 3D points, opaque to the selector.
Triangulate(points, points_mask) ==
    [points |-> points, points_mask |-> points_mask]

\* triangulator.get_reprojection_error: the signed error of every valid
\* observation, NaN where the mask is not 1.
GetReprojectionError(points2d, points3d, points_mask) ==
    [v \in 1..Len(points2d) |->
        [p \in 1..Len(points2d[v]) |->
            IF points_mask[v][p] = 1 THEN points2d[v][p] ELSE NaN]]

\* One entry of the record of calls made to collaborators during a call.
Ev(fn, arg) == [fn |-> fn, arg |-> arg]

\* ------------------------------------------------------------ np.nanmean
RECURSIVE SumValid(_, _)
SumValid(row, p) ==
    IF p > Len(row) THEN 0
    ELSE (IF IsNaN(row[p]) THEN 0 ELSE row[p]) + SumValid(row, p + 1)

RECURSIVE CountValid(_, _)
CountValid(row, p) ==
    IF p > Len(row) THEN 0
    ELSE (IF IsNaN(row[p]) THEN 0 ELSE 1) + CountValid(row, p + 1)

\* np.mean in place of np.nanmean: one NaN entry makes the mean NaN.
NanMean_Mean(row) ==
    [sum |-> SumValid(row, 1),
     cnt |-> IF CountValid(row, 1) = Len(row) THEN Len(row) ELSE 0]

\* A mean is kept as the fraction sum/cnt; cnt = 0 is the NaN that
\* np.nanmean returns for a row with no non-NaN entry.
NanMean(row) == [sum |-> SumValid(row, 1), cnt |-> CountValid(row, 1)]

MeanIsNaN(m) == m.cnt = 0

\* -------------------------------------------------------- np.argpartition
\* The plain float comparison: false whenever a NaN takes part.
Less_Plain(a, b) ==
    /\ ~MeanIsNaN(a)
    /\ ~MeanIsNaN(b)
    /\ a.sum * b.cnt < b.sum * a.cnt

\* The order numpy's selection uses on floats: a < b, with NaN after every
\* number.
Less(a, b) ==
    IF MeanIsNaN(a) THEN FALSE
    ELSE IF MeanIsNaN(b) THEN TRUE
    ELSE a.sum * b.cnt < b.sum * a.cnt

Swap(s, i, j) ==
    [x \in 1..Len(s) |-> IF x = i THEN s[j] ELSE IF x = j THEN s[i] ELSE s[x]]

\* The position, from k on, of the smallest element of a among tosort.
\* Which of several equal elements wins is fixed by the numpy build:
\* "first" keeps the earliest, "last" the latest.
RECURSIVE MinIdx(_, _, _, _, _)
MinIdx(a, tosort, k, minidx, build) ==
    IF k > Len(tosort) THEN minidx
    ELSE LET better == IF build = "first"
                       THEN Less(a[tosort[k]], a[tosort[minidx]])
                       ELSE ~Less(a[tosort[minidx]], a[tosort[k]])
         IN  MinIdx(a, tosort, k + 1, IF better THEN k ELSE minidx, build)

\* Selection of positions i..kth+1 (1-based) of tosort.
RECURSIVE Select(_, _, _, _, _)
Select(a, tosort, i, kth, build) ==
    IF i > kth + 1 THEN tosort
    ELSE Select(a, Swap(tosort, i, MinIdx(a, tosort, i + 1, i, build)),
                i + 1, kth, build)

\* np.argpartition(a, kth): raises ValueError unless -n <= kth < n; else a
\* permutation of the positions of a with the kth smallest in place and
\* every smaller one before it.
ArgPartition(a, kth, build) ==
    IF kth >= Len(a) \/ kth < 0 - Len(a)
    THEN [outcome |-> "ValueError", value |-> << >>]
    ELSE [outcome |-> "return",
          value   |-> Select(a, [i \in 1..Len(a) |-> i], 1, kth, build)]

\* sorted(list), for a list of distinct integers.
RECURSIVE Sorted(_)
Sorted(s) ==
    IF Len(s) = 0 THEN << >>
    ELSE LET m == CHOOSE x \in Range(s) : \A y \in Range(s) : x <= y
         IN  <<m>> \o Sorted(SelectSeq(s, LAMBDA y : y # m))

\* ---------------------------------------- CameraErrorSelector.__init__
TriangulatorArgs == {"config_dict", "instance"}

\* The constructor with its bound off by one: it accepts 1.
SelectorInit_OffByOne(k, tri_arg, vb) ==
    IF k >= 1
    THEN [status               |-> "ready",
          exc                  |-> "none",
          verbose              |-> vb,
          target_camera_number |-> k,
          triangulator         |-> IF tri_arg = "config_dict"
                                   THEN "built" ELSE "given",
          log                  |-> IF tri_arg = "config_dict"
                                   THEN <<"build_triangulator">> ELSE << >>]
    ELSE [status               |-> "failed",
          exc                  |-> "ValueError",
          verbose              |-> vb,
          target_camera_number |-> 0,
          triangulator         |-> "unset",
          log                  |-> <<"logger.error">>]

\* The selector after __init__(target_camera_number, triangulator, verbose).
SelectorInit(k, tri_arg, vb) ==
    IF k >= 2
    THEN [status               |-> "ready",
          exc                  |-> "none",
          verbose              |-> vb,
          target_camera_number |-> k,
          triangulator         |-> IF tri_arg = "config_dict"
                                   THEN "built" ELSE "given",
          log                  |-> IF tri_arg = "config_dict"
                                   THEN <<"build_triangulator">> ELSE << >>]
    ELSE [status               |-> "failed",
          exc                  |-> "ValueError",
          verbose              |-> vb,
          target_camera_number |-> 0,
          triangulator         |-> "unset",
          log                  |-> <<"logger.error">>]

\* ------------------------------ CameraErrorSelector.get_camera_indexes
\* The else branch: one triangulation, one reprojection error, the mean
\* absolute error of each view, and the target views of smallest mean.
SelectByError(target, prep, build) ==
    LET n_view      == Len(prep.mask)
        remain_cameras == [i \in 1..n_view |-> i - 1]
        points3d    == Triangulate(prep.points, prep.mask)
        error       == GetReprojectionError(prep.points, points3d, prep.mask)
        abs_error   == [v \in 1..n_view |->
                          [p \in 1..Len(error[v]) |-> Abs(error[v][p])]]
        mean_errors == [v \in 1..n_view |-> NanMean(abs_error[v])]
        part        == ArgPartition(mean_errors, target, build)
        t1          == <<Ev("triangulate", prep.mask),
                         Ev("get_reprojection_error", prep.mask)>>
    IN  IF part.outcome # "return"
        THEN [outcome     |-> part.outcome,
              value       |-> << >>,
              mean_errors |-> mean_errors,
              trace       |-> t1]
        ELSE [outcome     |-> "return",
              value       |-> Sorted([i \in 1..target |->
                                remain_cameras[part.value[i]]]),
              mean_errors |-> mean_errors,
              trace       |-> t1]

\* The method without its n_view == 2 branch.
GetCameraIndexes_NoShortcut(target, points, init_points_mask, build) ==
    LET prep == PrepareTriangulateInput(points, init_points_mask)
        r    == SelectByError(target, prep, build)
    IN  [r EXCEPT !.trace =
            <<Ev("prepare_triangulate_input", init_points_mask)>> \o r.trace]

\* The method as its docstring words it: triangulate, disable the worst
\* camera, and triangulate again until target cameras are left.
GetCameraIndexes_Iterative(target, points, init_points_mask, build) ==
    LET prep == PrepareTriangulateInput(points, init_points_mask)
        r    == SelectByError(target, prep, build)
        t0   == <<Ev("prepare_triangulate_input", init_points_mask)>>
    IN  IF Len(prep.mask) = 2
        THEN [outcome     |-> "return",
              value       |-> [i \in 1..2 |-> i - 1],
              mean_errors |-> << >>,
              trace       |-> t0 \o <<Ev("logger.warning", << >>)>>]
        ELSE [r EXCEPT !.trace = t0 \o r.trace \o r.trace]

GetCameraIndexes(target, points, init_points_mask, build) ==
    LET prep   == PrepareTriangulateInput(points, init_points_mask)
        n_view == Len(prep.mask)
        remain_cameras == [i \in 1..n_view |-> i - 1]
        t0     == <<Ev("prepare_triangulate_input", init_points_mask)>>
    IN  IF n_view = 2
        THEN [outcome     |-> "return",
              value       |-> remain_cameras,
              mean_errors |-> << >>,
              trace       |-> t0 \o <<Ev("logger.warning", << >>)>>]
        ELSE LET r == SelectByError(target, prep, build)
             IN  [r EXCEPT !.trace = t0 \o r.trace]

\* ------------------------------ CameraErrorSelector.get_selection_mask
\* The method with the membership test inverted: the selected views zeroed.
GetSelectionMask_Inverted(target, vb, points, init_points_mask, build) ==
    LET prep == PrepareTriangulateInput(points, init_points_mask)
        sel  == GetCameraIndexes(target, prep.points, prep.mask, build)
    IN  [outcome     |-> sel.outcome,
         value       |-> IF sel.outcome # "return" THEN << >>
                         ELSE [v \in 1..Len(prep.mask) |->
                                 IF (v - 1) \notin Range(sel.value)
                                 THEN prep.mask[v]
                                 ELSE [p \in 1..Len(prep.mask[v]) |-> 0]],
         mean_errors |-> sel.mean_errors,
         trace       |-> sel.trace]

GetSelectionMask(target, vb, points, init_points_mask, build) ==
    LET prep == PrepareTriangulateInput(points, init_points_mask)
        t0   == <<Ev("prepare_triangulate_input", init_points_mask)>>
        sel  == GetCameraIndexes(target, prep.points, prep.mask, build)
    IN  IF sel.outcome # "return"
        THEN [outcome     |-> sel.outcome,
              value       |-> << >>,
              mean_errors |-> sel.mean_errors,
              trace       |-> t0 \o sel.trace]
        ELSE [outcome     |-> "return",
              value       |-> [v \in 1..Len(prep.mask) |->
                                 IF (v - 1) \in Range(sel.value)
                                 THEN prep.mask[v]
                                 ELSE [p \in 1..Len(prep.mask[v]) |-> 0]],
              mean_errors |-> sel.mean_errors,
              trace       |-> t0 \o sel.trace \o
                              (IF vb
                               THEN <<Ev("get_valid_views_stats", << >>),
                                      Ev("logger.info", << >>)>>
                               ELSE << >>)]

\* --------------------- mmpose_top_down_estimator: the module's import guard
\* The try block imports from mmcv, then mmpose, then mmpose.apis; the first
\* import that fails leaves its names and those of the later ones unbound.
ImportFailures == {"none", "mmcv", "mmpose", "mmpose.apis"}

\* mmpose versions 0.<minor>.0, by their minor number.
MmposeVersions == {12, 13, 28}

\* The module's globals once it is loaded.
ImportGuard(fails_at, version) ==
    [loaded           |-> TRUE,
     has_mmpose       |-> fails_at = "none",
     import_exception |-> IF fails_at = "none" THEN "" ELSE "traceback",
     mmpose_version   |-> IF fails_at \in {"none", "mmpose.apis"}
                          THEN version ELSE 0,
     bound            |->
        CASE fails_at = "mmcv"        -> {}
          [] fails_at = "mmpose"      -> {"digit_version"}
          [] fails_at = "mmpose.apis" -> {"digit_version", "mmpose_version"}
          [] OTHER -> {"digit_version", "mmpose_version",
                       "inference_top_down_pose_model", "init_pose_model"}]

NotImported ==
    [loaded |-> FALSE, has_mmpose |-> FALSE, import_exception |-> "",
     mmpose_version |-> 0, bound |-> {}]

\* ------------------------------------- MMposeTopDownEstimator.__init__
\* cfg.data['test']['type'] of the pose model that mmpose_kwargs names;
\* "invalid" is a config or checkpoint init_pose_model rejects.
MmposeKwargs == {"TopDownSenseWholeBodyDataset", "TopDownCocoWholeBodyDataset",
                 "TopDownCocoDataset", "invalid"}

LoggerArgs == {"None", "name", "Logger"}

NoEstimator ==
    [status |-> "none", exc |-> "none", log |-> << >>, trace |-> << >>,
     pose_model |-> "unset", batch_size |-> 0, bbox_thr |-> 0,
     logger |-> "unset", use_old_api |-> FALSE]

\* The estimator after __init__(mmpose_kwargs, bbox_thr, logger) in a module
\* whose globals are m.  A statement that raises ends the constructor; the
\* attributes set before it stay in the record.
EstimatorInit(m, mmpose_kwargs, bbox_thr, logger) ==
    IF "init_pose_model" \notin m.bound
    THEN [NoEstimator EXCEPT !.status = "failed", !.exc = "NameError"]
    ELSE IF mmpose_kwargs = "invalid"
    THEN [NoEstimator EXCEPT !.status = "failed",
                             !.exc = "init_pose_model error",
                             !.trace = <<"init_pose_model">>]
    ELSE
      LET e1 == [NoEstimator EXCEPT !.trace = <<"init_pose_model">>,
                                    !.pose_model = mmpose_kwargs,
                                    !.batch_size = 1,
                                    !.bbox_thr = bbox_thr,
                                    !.logger = logger]
      IN  IF ~m.has_mmpose
          THEN [e1 EXCEPT !.status = "failed",
                          !.exc = "ModuleNotFoundError",
                          !.log = <<m.import_exception>>]
          ELSE [e1 EXCEPT !.status = "ready",
                          !.trace = e1.trace \o
                                    <<"digit_version", "digit_version">>,
                          !.use_old_api = (m.mmpose_version <= 13)]

\* __translate_data_source__
TranslateDataSource(mmpose_dataset_name) ==
    CASE mmpose_dataset_name = "TopDownSenseWholeBodyDataset" ->
            [outcome |-> "return", value |-> "sense_whole_body"]
      [] mmpose_dataset_name = "TopDownCocoWholeBodyDataset" ->
            [outcome |-> "return", value |-> "coco_wholebody"]
      [] OTHER -> [outcome |-> "NotImplementedError", value |-> ""]

\* MMposeTopDownEstimator.get_keypoints_convention_name
GetKeypointsConventionName(est) == TranslateDataSource(est.pose_model)

\* ------------------ MMposeTopDownEstimator.get_keypoints_from_result
\* A keypoint is (x, y, confidence); a human is its list of keypoints.
Human1 == <<(<<1, 2, 1>>), (<<3, 4, 1>>)>>

Human2 == <<(<<5, 6, 1>>), (<<0, 0, 0>>)>>

\* The humans the infer methods found in one frame.
FrameResults ==
    { << >>, <<Human1>>, <<Human2>>, <<Human2, Human1>> }

\* kps2d_list: one entry of FrameResults per frame, for up to MaxFrame frames.
Kps2dLists == UNION {[1..n -> FrameResults] : n \in 0..MaxFrame}

\* max(list) of a non-empty list of integers.
MaxOf(s) == CHOOSE x \in Range(s) : \A y \in Range(s) : y <= x

\* The first frame of kps2d_list, from f on, that holds a human; 0 if none.
RECURSIVE FirstWithHuman(_, _)
FirstWithHuman(kps2d_list, f) ==
    IF f > Len(kps2d_list) THEN 0
    ELSE IF Len(kps2d_list[f]) > 0 THEN f
    ELSE FirstWithHuman(kps2d_list, f + 1)

\* np.zeros(shape=(n_keypoints, 3)), one human's slot before it is filled.
ZeroKps(n_keypoints) == [k \in 1..n_keypoints |-> <<0, 0, 0>>]

\* The method with the else branch of its inner loop forgotten: in a frame
\* with humans, the slots beyond its last human keep the mask's initial 1.
GetKeypointsFromResult_PaddingUnmasked(est, kps2d_list) ==
    LET n_frame == Len(kps2d_list)
        human_count_list == [f \in 1..n_frame |-> Len(kps2d_list[f])]
        n_human == IF Len(human_count_list) > 0
                   THEN MaxOf(human_count_list) ELSE 0
        first == FirstWithHuman(kps2d_list, 1)
        n_keypoints == IF first = 0 THEN 0 ELSE Len(kps2d_list[first][1])
        kps2d_arr ==
            [f \in 1..n_frame |-> [h \in 1..n_human |->
                IF h - 1 < Len(kps2d_list[f])
                THEN kps2d_list[f][h] ELSE ZeroKps(n_keypoints)]]
        mask_arr ==
            [f \in 1..n_frame |-> [h \in 1..n_human |->
                [k \in 1..n_keypoints |->
                    IF Len(kps2d_list[f]) <= 0 THEN 0 ELSE 1]]]
        convention == GetKeypointsConventionName(est)
    IN  IF n_human > 0
        THEN [outcome    |-> IF convention.outcome = "return"
                             THEN "return" ELSE convention.outcome,
              kps        |-> kps2d_arr,
              mask       |-> mask_arr,
              convention |-> convention.value]
        ELSE [outcome |-> "return_none", kps |-> << >>, mask |-> << >>,
              convention |-> ""]

\* The outcome of get_keypoints_from_result(kps2d_list): "return_none" for
\* None; else the arrays built, handed to Keypoints with the convention name
\* ("return"), unless get_keypoints_convention_name raises.
GetKeypointsFromResult(est, kps2d_list) ==
    LET n_frame == Len(kps2d_list)
        human_count_list == [f \in 1..n_frame |-> Len(kps2d_list[f])]
        n_human == IF Len(human_count_list) > 0
                   THEN MaxOf(human_count_list) ELSE 0
        first == FirstWithHuman(kps2d_list, 1)
        n_keypoints == IF first = 0 THEN 0 ELSE Len(kps2d_list[first][1])
        kps2d_arr ==
            [f \in 1..n_frame |-> [h \in 1..n_human |->
                IF Len(kps2d_list[f]) <= 0 THEN ZeroKps(n_keypoints)
                ELSE IF h - 1 < Len(kps2d_list[f])
                THEN kps2d_list[f][h] ELSE ZeroKps(n_keypoints)]]
        mask_arr ==
            [f \in 1..n_frame |-> [h \in 1..n_human |->
                [k \in 1..n_keypoints |->
                    IF Len(kps2d_list[f]) <= 0 THEN 0
                    ELSE IF h - 1 < Len(kps2d_list[f]) THEN 1 ELSE 0]]]
        convention == GetKeypointsConventionName(est)
    IN  IF n_human > 0
        THEN [outcome    |-> IF convention.outcome = "return"
                             THEN "return" ELSE convention.outcome,
              kps        |-> kps2d_arr,
              mask       |-> mask_arr,
              convention |-> convention.value]
        ELSE [outcome |-> "return_none", kps |-> << >>, mask |-> << >>,
              convention |-> ""]

\* ------------------------------------------------------------------ state
VARIABLES
    selector,         \* the CameraErrorSelector instance (see SelectorInit)
    ctor_args,        \* the arguments __init__ was called with
    partition_build,  \* how this numpy build breaks ties in argpartition
    call,             \* the latest method call on the selector
    first_indexes,    \* the result of the first get_camera_indexes call
                      \* made with the input of the latest call
    earlier_ops,      \* the methods called with that input before the
                      \* latest call
    mmpose_module,    \* globals of the loaded mmpose_top_down_estimator
    estimator,        \* the MMposeTopDownEstimator instance
    est_args,         \* the arguments its __init__ was called with
    est_call,         \* the latest method call on the estimator
    kps_call          \* the latest get_keypoints_from_result call

selector_vars ==
    <<selector, ctor_args, partition_build, call, first_indexes, earlier_ops>>
estimator_vars == <<mmpose_module, estimator, est_args, est_call, kps_call>>
vars == <<selector_vars, estimator_vars>>

NoSelector ==
    [status |-> "none", exc |-> "none", verbose |-> FALSE,
     target_camera_number |-> 0, triangulator |-> "unset", log |-> << >>]

NoArgs == [k |-> 0, tri_arg |-> "none", verbose |-> FALSE]

NoCall ==
    [op |-> "none", points |-> << >>, mask |-> NoMask, outcome |-> "none",
     value |-> << >>, mean_errors |-> << >>, trace |-> << >>]

NoResult == [outcome |-> "none", value |-> << >>]

NoEstArgs == [mmpose_kwargs |-> "none", bbox_thr |-> 0, logger |-> "none"]

NoEstCall == [op |-> "none", outcome |-> "none", value |-> ""]

SelectorIdle ==
    /\ selector = NoSelector
    /\ ctor_args = NoArgs
    /\ call = NoCall
    /\ first_indexes = NoResult
    /\ earlier_ops = {}

NoKpsCall ==
    [op |-> "none", kps2d_list |-> << >>, outcome |-> "none", kps |-> << >>,
     mask |-> << >>, convention |-> ""]

EstimatorIdle ==
    /\ estimator = NoEstimator
    /\ est_args = NoEstArgs
    /\ est_call = NoEstCall
    /\ kps_call = NoKpsCall

\* A program that uses the selector and never loads the estimator's module.
Init ==
    /\ SelectorIdle
    /\ partition_build \in {"first", "last"}
    /\ mmpose_module = NotImported
    /\ EstimatorIdle

\* CameraErrorSelector(target_camera_number=k, triangulator=tri_arg,
\*                     verbose=vb)
Construct(k, tri_arg, vb) ==
    /\ selector.status = "none"
    /\ selector' = SelectorInit(k, tri_arg, vb)
    /\ ctor_args' = [k |-> k, tri_arg |-> tri_arg, verbose |-> vb]
    /\ UNCHANGED <<partition_build, call, first_indexes, earlier_ops, estimator_vars>>

\* A caller passes any input to its first call and the same input to the
\* calls that follow, until it forgets the results (Forget).
CallerInputs ==
    IF call.op = "none" THEN AllInputs
    ELSE {[points |-> call.points, mask |-> call.mask]}

EarlierOps == IF call.op = "none" THEN {} ELSE earlier_ops \cup {call.op}

\* The call, were the method to keep its progress in the instance: it leaves
\* target_camera_number lowered by one (never below 2).
CallGetCameraIndexes_Stateful(points, mask) ==
    /\ selector.status = "ready"
    /\ earlier_ops' = EarlierOps
    /\ LET r == GetCameraIndexes(selector.target_camera_number, points, mask,
                                 partition_build)
       IN  /\ call' = [op |-> "get_camera_indexes", points |-> points,
                       mask |-> mask, outcome |-> r.outcome,
                       value |-> r.value, mean_errors |-> r.mean_errors,
                       trace |-> r.trace]
           /\ first_indexes' =
                 IF first_indexes = NoResult
                 THEN [outcome |-> r.outcome, value |-> r.value]
                 ELSE first_indexes
    /\ selector' = [selector EXCEPT !.target_camera_number =
                      IF @ > 2 THEN @ - 1 ELSE @]
    /\ UNCHANGED <<ctor_args, partition_build, estimator_vars>>

\* selector.get_camera_indexes(points, mask)
CallGetCameraIndexes(points, mask) ==
    /\ selector.status = "ready"
    /\ earlier_ops' = EarlierOps
    /\ LET r == GetCameraIndexes(selector.target_camera_number, points, mask,
                                 partition_build)
       IN  /\ call' = [op |-> "get_camera_indexes", points |-> points,
                       mask |-> mask, outcome |-> r.outcome,
                       value |-> r.value, mean_errors |-> r.mean_errors,
                       trace |-> r.trace]
           /\ first_indexes' =
                 IF first_indexes = NoResult
                 THEN [outcome |-> r.outcome, value |-> r.value]
                 ELSE first_indexes
    /\ UNCHANGED <<selector, ctor_args, partition_build, estimator_vars>>

\* selector.get_selection_mask(points, mask)
CallGetSelectionMask(points, mask) ==
    /\ selector.status = "ready"
    /\ earlier_ops' = EarlierOps
    /\ LET r == GetSelectionMask(selector.target_camera_number,
                                 selector.verbose, points, mask,
                                 partition_build)
       IN  call' = [op |-> "get_selection_mask", points |-> points,
                    mask |-> mask, outcome |-> r.outcome,
                    value |-> r.value, mean_errors |-> r.mean_errors,
                    trace |-> r.trace]
    /\ UNCHANGED <<selector, ctor_args, partition_build, first_indexes, estimator_vars>>

\* The caller drops the results it holds and is free to pass another input.
Forget ==
    /\ call.op # "none"
    /\ call' = NoCall
    /\ first_indexes' = NoResult
    /\ earlier_ops' = {}
    /\ UNCHANGED <<selector, ctor_args, partition_build, estimator_vars>>

Next ==
    \/ \E k \in 0..MaxTarget, t \in TriangulatorArgs, vb \in BOOLEAN :
          Construct(k, t, vb)
    \/ \E i \in CallerInputs : CallGetCameraIndexes(i.points, i.mask)
    \/ \E i \in CallerInputs : CallGetSelectionMask(i.points, i.mask)
    \/ Forget

Spec == Init /\ [][Next]_vars

\* ------------------------------------------------- the estimator's program
\* A program that loads mmpose_top_down_estimator, in an environment where
\* any of the guarded imports may fail, and constructs an estimator.
InitEstimator ==
    /\ SelectorIdle
    /\ partition_build = "first"
    /\ \E f \in ImportFailures, ver \in MmposeVersions :
          mmpose_module = ImportGuard(f, ver)
    /\ EstimatorIdle

\* MMposeTopDownEstimator(mmpose_kwargs=kw, bbox_thr=thr, logger=lg)
ConstructEstimator(kw, thr, lg) ==
    /\ mmpose_module.loaded
    /\ estimator.status = "none"
    /\ estimator' = EstimatorInit(mmpose_module, kw, thr, lg)
    /\ est_args' = [mmpose_kwargs |-> kw, bbox_thr |-> thr, logger |-> lg]
    /\ UNCHANGED <<selector_vars, mmpose_module, est_call, kps_call>>

\* estimator.get_keypoints_convention_name()
CallGetKeypointsConventionName ==
    /\ estimator.status = "ready"
    /\ LET r == GetKeypointsConventionName(estimator)
       IN  est_call' = [op |-> "get_keypoints_convention_name",
                        outcome |-> r.outcome, value |-> r.value]
    /\ UNCHANGED <<selector_vars, mmpose_module, estimator, est_args, kps_call>>

\* estimator.get_keypoints_from_result(kps2d_list), by a caller that holds
\* no earlier result of it.
CallGetKeypointsFromResult(kps2d_list) ==
    /\ estimator.status = "ready"
    /\ kps_call = NoKpsCall
    /\ LET r == GetKeypointsFromResult(estimator, kps2d_list)
       IN  kps_call' = [op |-> "get_keypoints_from_result",
                        kps2d_list |-> kps2d_list, outcome |-> r.outcome,
                        kps |-> r.kps, mask |-> r.mask,
                        convention |-> r.convention]
    /\ UNCHANGED <<selector_vars, mmpose_module, estimator, est_args, est_call>>

\* The caller drops the result of get_keypoints_from_result it holds.
ForgetKeypoints ==
    /\ kps_call # NoKpsCall
    /\ kps_call' = NoKpsCall
    /\ UNCHANGED <<selector_vars, mmpose_module, estimator, est_args, est_call>>

NextEstimator ==
    \/ \E kw \in MmposeKwargs, thr \in {0, 1}, lg \in LoggerArgs :
          ConstructEstimator(kw, thr, lg)
    \/ CallGetKeypointsConventionName
    \/ \E l \in Kps2dLists : CallGetKeypointsFromResult(l)
    \/ ForgetKeypoints

SpecEstimator == InitEstimator /\ [][NextEstimator]_vars

\* ================================================================ claims
\* What the claims read off the latest call.
CallNView == Len(call.points)

CallTarget == selector.target_camera_number

\* The input mask of the latest call after normalization.
CallMask == IF call.mask = NoMask
            THEN [v \in 1..CallNView |-> [p \in 1..Len(call.points[v]) |-> 1]]
            ELSE call.mask

Returned(op) == call.op = op /\ call.outcome = "return"

StrictlyAscending(s) == \A i \in 1..Len(s), j \in 1..Len(s) : i < j => s[i] < s[j]

\* The views (0-based) a returned get_camera_indexes call selected.
Selected == Range(call.value)

\* The mean absolute reprojection error of view v (1-based position) over
\* its valid observations, as the fraction sum/cnt, from the input alone.
ValidPoints(v) == {p \in 1..Len(CallMask[v]) : CallMask[v][p] = 1}

RECURSIVE SumAbsRes(_, _)
SumAbsRes(v, ps) ==
    IF ps = {} THEN 0
    ELSE LET p == CHOOSE q \in ps : TRUE
             r == call.points[v][p]
         IN  (IF r < 0 THEN 0 - r ELSE r) + SumAbsRes(v, ps \ {p})

ViewMean(v) ==
    [sum |-> SumAbsRes(v, ValidPoints(v)), cnt |-> Cardinality(ValidPoints(v))]

ViewMeanIsNaN(v) == ValidPoints(v) = {}

\* a <= b on view means, a NaN mean ranking after every number.
ViewMeanLeq(v, w) ==
    \/ ViewMeanIsNaN(w)
    \/ /\ ~ViewMeanIsNaN(v)
       /\ ViewMean(v).sum * ViewMean(w).cnt <= ViewMean(w).sum * ViewMean(v).cnt

\* ---------------------------------------------------------------- C1
\* C1: every get_camera_indexes call with n_view >= target_camera_number >= 2
\* returns normally a strictly ascending list of integers of [0, n_view), of
\* length target_camera_number (n_view when n_view = 2).
C1_ReturnsTargetManyAscending ==
    (call.op = "get_camera_indexes" /\ CallTarget >= 2
        /\ CallNView >= CallTarget)
    => /\ call.outcome = "return"
       /\ Len(call.value) = (IF CallNView = 2 THEN CallNView ELSE CallTarget)
       /\ StrictlyAscending(call.value)
       /\ \A i \in 1..Len(call.value) :
             call.value[i] >= 0 /\ call.value[i] < CallNView

\* ---------------------------------------------------------------- C2
\* C2: the mask get_selection_mask returns has the shape of the normalized
\* input mask; the rows of the views get_camera_indexes selects for the same
\* input equal the normalized input rows, every other row is all 0.
C2_MaskFollowsIndexes ==
    Returned("get_selection_mask")
    => LET idx == GetCameraIndexes(CallTarget, call.points, call.mask,
                                   partition_build)
       IN  /\ idx.outcome = "return"
           /\ Len(call.value) = Len(CallMask)
           /\ \A v \in 1..Len(CallMask) :
                 /\ Len(call.value[v]) = Len(CallMask[v])
                 /\ (v - 1) \in Range(idx.value)
                       => call.value[v] = CallMask[v]
                 /\ (v - 1) \notin Range(idx.value)
                       => \A p \in 1..Len(CallMask[v]) : call.value[v][p] = 0

\* A mask was returned that zeroes a view holding a non-zero entry and keeps
\* a view holding NaN.
C2_Witness ==
    /\ Returned("get_selection_mask")
    /\ CallNView > 2
    /\ \E v \in 1..CallNView :
          /\ \E p \in 1..Len(CallMask[v]) : CallMask[v][p] # 0
          /\ \A p \in 1..Len(CallMask[v]) : call.value[v][p] = 0
    /\ \E v \in 1..CallNView :
          /\ \E p \in 1..Len(CallMask[v]) : IsNaN(call.value[v][p])

\* ---------------------------------------------------------------- C3
\* C3: when n_view > 2 the returned views are target_camera_number views of
\* smallest mean absolute error over valid observations: no selected view has
\* a larger mean than a view left out (a NaN mean ranks last).
C3_SelectsSmallestMeans ==
    (Returned("get_camera_indexes") /\ CallNView > 2)
    => /\ Cardinality(Selected) = CallTarget
       /\ \A v \in 1..CallNView, w \in 1..CallNView :
             ((v - 1) \in Selected /\ (w - 1) \notin Selected)
                => ViewMeanLeq(v, w)

\* A call left out a view whose mean is strictly larger than a selected
\* view's although the sum of its errors is smaller.
C3_Witness ==
    /\ Returned("get_camera_indexes")
    /\ CallNView > 2
    /\ \E v \in 1..CallNView, w \in 1..CallNView :
          /\ (v - 1) \in Selected
          /\ (w - 1) \notin Selected
          /\ ~ViewMeanLeq(w, v)
          /\ ~ViewMeanIsNaN(w)
          /\ ViewMean(w).sum < ViewMean(v).sum

\* ---------------------------------------------------------------- C4
\* The views (0-based) get_camera_indexes selects for the latest call's input.
SelectedForCall ==
    Range(GetCameraIndexes(CallTarget, call.points, call.mask,
                           partition_build).value)

\* The mean the call computed for every view is the mean over the
\* observations whose mask entry is 1: an entry whose mask is NaN (or 0)
\* takes no part in it.
MaskedEntriesExcluded ==
    \A v \in 1..Len(call.mean_errors) : call.mean_errors[v] = ViewMean(v)

\* C4 as stated: a NaN entry of the input mask is left out of the means and
\* is still NaN in the mask get_selection_mask returns, in every view.
C4_NaNKeptInEveryView ==
    Returned("get_selection_mask")
    => /\ MaskedEntriesExcluded
       /\ \A v \in 1..CallNView : \A p \in 1..Len(CallMask[v]) :
             IsNaN(CallMask[v][p]) => IsNaN(call.value[v][p])

\* C4 amended: a NaN entry of the input mask is left out of the means; in
\* the returned mask it is still NaN when its view is selected and 0 when
\* its view is not.
C4_NaNKeptInSelectedViews ==
    Returned("get_selection_mask")
    => /\ MaskedEntriesExcluded
       /\ \A v \in 1..CallNView : \A p \in 1..Len(CallMask[v]) :
             IsNaN(CallMask[v][p])
             => IF (v - 1) \in SelectedForCall
                THEN IsNaN(call.value[v][p])
                ELSE call.value[v][p] = 0

\* A mask was returned for an input with a NaN entry in a selected view and
\* one in a view left out, the means having been computed.
C4_Witness ==
    /\ Returned("get_selection_mask")
    /\ Len(call.mean_errors) > 2
    /\ \E v \in 1..CallNView : \E p \in 1..Len(CallMask[v]) :
          IsNaN(CallMask[v][p]) /\ IsNaN(call.value[v][p])
    /\ \E v \in 1..CallNView : \E p \in 1..Len(CallMask[v]) :
          IsNaN(CallMask[v][p]) /\ call.value[v][p] = 0

\* ---------------------------------------------------------------- C5
\* C5: __init__ with target_camera_number < 2 raises ValueError, leaves no
\* usable selector, builds and stores no triangulator and is followed by no
\* method call; with target_camera_number >= 2 it does not raise.
C5_ConstructionFailsFast ==
    selector.status # "none"
    => /\ ctor_args.k < 2
          => /\ selector.status = "failed"
             /\ selector.exc = "ValueError"
             /\ selector.triangulator = "unset"
             /\ "build_triangulator" \notin Range(selector.log)
             /\ call = NoCall
       /\ ctor_args.k >= 2
          => /\ selector.status = "ready"
             /\ selector.exc = "none"

\* Construction with target_camera_number = 1 and a triangulator config has
\* failed.
C5_Witness ==
    /\ selector.status = "failed"
    /\ ctor_args.k = 1
    /\ ctor_args.tri_arg = "config_dict"

\* ---------------------------------------------------------------- C6
TriangulatorCalls(trace) ==
    SelectSeq(trace, LAMBDA e : e.fn \in {"triangulate",
                                          "get_reprojection_error"})

\* C6: with n_view = 2, get_camera_indexes returns [0, 1] whatever points and
\* mask hold, logs a warning whatever verbose is, does not raise and calls
\* the triangulator not at all.
C6_TwoViewsKeptAsIs ==
    (call.op = "get_camera_indexes" /\ CallNView = 2)
    => /\ call.outcome = "return"
       /\ call.value = <<0, 1>>
       /\ \E i \in 1..Len(call.trace) : call.trace[i].fn = "logger.warning"
       /\ TriangulatorCalls(call.trace) = << >>

\* A two-view call returned on a quiet selector whose target is above 2,
\* for an input with a view that has no valid observation.
C6_Witness ==
    /\ Returned("get_camera_indexes")
    /\ CallNView = 2
    /\ ~selector.verbose
    /\ CallTarget > 2
    /\ \E v \in 1..CallNView : ViewMeanIsNaN(v)

\* ---------------------------------------------------------------- C7
\* C7: a get_camera_indexes call returns what the first get_camera_indexes
\* call with the same input returned, whatever calls came between, and the
\* selector still holds the target_camera_number and the triangulator its
\* constructor set.
C7_SameInputSameOutput ==
    /\ (call.op = "get_camera_indexes" /\ first_indexes # NoResult)
          => (call.outcome = first_indexes.outcome
              /\ call.value = first_indexes.value)
    /\ selector.status = "ready"
          => (selector.target_camera_number = ctor_args.k
              /\ selector.triangulator =
                    (IF ctor_args.tri_arg = "config_dict"
                     THEN "built" ELSE "given"))

\* A get_camera_indexes call that dropped a view has returned after a
\* get_selection_mask call and an earlier get_camera_indexes call on the same
\* input.
C7_Witness ==
    /\ Returned("get_camera_indexes")
    /\ CallNView > CallTarget
    /\ first_indexes.outcome = "return"
    /\ earlier_ops = {"get_camera_indexes", "get_selection_mask"}
    /\ \E i \in 1..Len(call.trace) : call.trace[i].fn = "triangulate"

NumericViews == {v \in 1..CallNView : ~ViewMeanIsNaN(v)}

\* C9: when at least target_camera_number views have a non-NaN mean error, no
\* view with a NaN mean is returned, and the call returns what the first call
\* with the same input returned.
C9_NaNViewsRankLast ==
    (Returned("get_camera_indexes") /\ CallNView > 2
        /\ Cardinality(NumericViews) >= CallTarget)
    => /\ \A v \in 1..CallNView : (v - 1) \in Selected => ~ViewMeanIsNaN(v)
       /\ first_indexes = [outcome |-> call.outcome, value |-> call.value]

\* A call returned that left out view 0, whose mean is NaN.
C9_Witness ==
    /\ Returned("get_camera_indexes")
    /\ CallNView > 2
    /\ Cardinality(NumericViews) >= CallTarget
    /\ ViewMeanIsNaN(1)
    /\ 0 \notin Selected

\* --------------------------------------------------------------- C10
\* C10: constructing the estimator when the mmpose import failed logs the
\* import exception and raises ModuleNotFoundError, no mmpose API having been
\* reached.
C10_MissingMmposeReported ==
    (estimator.status # "none" /\ ~mmpose_module.has_mmpose)
    => /\ estimator.status = "failed"
       /\ estimator.exc = "ModuleNotFoundError"
       /\ estimator.log = <<mmpose_module.import_exception>>
       /\ estimator.trace = << >>

\* --------------------------------------------------------------- C11
\* The number of humans of the fullest frame of the latest call's kps2d_list.
MostHumans ==
    LET counts == {Len(kps_call.kps2d_list[f]) :
                      f \in 1..Len(kps_call.kps2d_list)} \cup {0}
    IN  CHOOSE n \in counts : \A m \in counts : m <= n

\* The number of keypoints of the humans of kps2d_list.
KeypointsPerHuman ==
    CHOOSE n \in UNION {
        {Len(kps_call.kps2d_list[f][h]) :
            h \in 1..Len(kps_call.kps2d_list[f])} :
               f \in 1..Len(kps_call.kps2d_list)} : TRUE

\* C11: get_keypoints_from_result returns None exactly when no frame holds a
\* human; otherwise it builds arrays over [n_frame, n_human, n_keypoints],
\* n_human the most humans of any frame, where slot h of frame f has mask 1
\* and the keypoints kps2d_list[f][h] if frame f has more than h humans, and
\* mask 0 and zero keypoints if not.
C11_PaddedArrays ==
    kps_call.op = "get_keypoints_from_result"
    => LET l == kps_call.kps2d_list
       IN  /\ kps_call.outcome = "return_none" <=> MostHumans = 0
           /\ MostHumans > 0
              => /\ Len(kps_call.kps) = Len(l)
                 /\ Len(kps_call.mask) = Len(l)
                 /\ \A f \in 1..Len(l) :
                       /\ Len(kps_call.kps[f]) = MostHumans
                       /\ Len(kps_call.mask[f]) = MostHumans
                       /\ \A h \in 1..MostHumans :
                             /\ Len(kps_call.kps[f][h]) = KeypointsPerHuman
                             /\ Len(kps_call.mask[f][h]) = KeypointsPerHuman
                             /\ \A k \in 1..KeypointsPerHuman :
                                   IF h <= Len(l[f])
                                   THEN /\ kps_call.mask[f][h][k] = 1
                                        /\ kps_call.kps[f][h][k] = l[f][h][k]
                                   ELSE /\ kps_call.mask[f][h][k] = 0
                                        /\ kps_call.kps[f][h][k] = <<0, 0, 0>>

\* A call returned the arrays of a kps2d_list with an empty frame and a frame
\* with fewer humans than the fullest one.
C11_Witness ==
    /\ kps_call.outcome = "return"
    /\ \E f \in 1..Len(kps_call.kps2d_list) : Len(kps_call.kps2d_list[f]) = 0
    /\ \E f \in 1..Len(kps_call.kps2d_list) :
          /\ Len(kps_call.kps2d_list[f]) > 0
          /\ Len(kps_call.kps2d_list[f]) < MostHumans

=============================================================================
